---- MODULE Spec2Model ----
(***************************************************************************)
(* A state-machine model of src/src/Stepper.cpp: the Stepper driver of the *)
(* Arduino library as modified in this repository (local time stamp,       *)
(* deceleration near the end of a move, motor reset after every move).     *)
(*                                                                         *)
(* One driver instance is modelled.  Its member functions are the actions; *)
(* Stepper::step, which busy-polls micros(), is split at the reads of the  *)
(* time source: StepCall is the entry of the function up to the loop head, *)
(* Poll is one iteration of the while loop (and, when that iteration takes *)
(* the last step, the loop exit, resetMotor and the return as well).       *)
(*                                                                         *)
(* The C++ types `int` and `unsigned long` keep a width: IntBits and       *)
(* LongBits.  IntBits is the width of int on the AVR boards the library    *)
(* was written for; LongBits is scaled down from 32 so that the values     *)
(* stay small.                                                             *)
(*                                                                         *)
(* Spec is the driver with a time source that returns any value of         *)
(* TimeSamples at each read.  ClockSpec is the driver with a time source   *)
(* that is a counter, advancing and wrapping between the iterations of the *)
(* loop; FairClockSpec adds that the counter and the loop keep going.      *)
(* EmitSpec is the driver with stepMotor called on its own.                *)
(***************************************************************************)
EXTENDS Integers, Sequences, FiniteSets, TLC

VARIABLES
    pc,              \* "new": not constructed, "idle": between calls, "loop": at the head of step's while loop, "fault": trapped
    number_of_steps, \* this->number_of_steps
    step_delay,      \* this->step_delay (unsigned long)
    motor_pin,       \* this->motor_pin[0..3]
    pin_mode,        \* hardware: mode of each motor pin, by index into motor_pin
    pin_level,       \* hardware: level last written to each motor pin
    steps_to_move,   \* step's parameter (0 when no step call is running)
    steps_left,      \* step's local (0 when no step call is running)
    direction,       \* step's local (0 when no step call is running)
    last_step_time,  \* step's local (0 when no step call is running)
    op,              \* history: the call made last, with its arguments
    status,          \* history: how the call made last ended or stands
    emitted,         \* history: the arguments of the stepMotor calls of the running step call, or of the call made last if that was a step call
    pinLog,          \* history: the digitalWrite calls of that step call
    lastAdvance,     \* history: the time-source reading at the driver's latest phase advance (0 at construction)
    lastEsti,        \* history: the threshold (esti) the latest advance of that step call was tested against
    lastPhase,       \* history: the phase index the driver emitted last (-1: none yet)
    phaseBefore,     \* history: lastPhase at the entry of that step call (-1: none)
    mirror,          \* history: that step call was entered as step(-N) right after step(N) returned
    prevEmitted,     \* history: when mirror, emitted of that step(N) call
    clock,           \* hardware: the counter micros() reads, where the model keeps one (ClockSpec)
    polled           \* history: the running loop has read the present value of clock (ClockSpec)

vars == <<pc, number_of_steps, step_delay, motor_pin, pin_mode, pin_level,
          steps_to_move, steps_left, direction, last_step_time,
          op, status, emitted, pinLog, lastAdvance, lastEsti, lastPhase,
          phaseBefore, mirror, prevEmitted, clock, polled>>

progVars == <<number_of_steps, step_delay, motor_pin>>
localVars == <<steps_to_move, steps_left, direction, last_step_time>>
histVars == <<emitted, pinLog, lastAdvance, lastEsti, lastPhase, phaseBefore, mirror, prevEmitted>>
clockVars == <<clock, polled>>

-----------------------------------------------------------------------------
(* Bounds of the model *)

\* largest |steps_to_move| a call is made with
MaxSteps == 11
\* width of int
IntBits == 16
\* width of unsigned long (and long)
LongBits == 18
\* the dense time samples are 0, TimeQuantum, ..., MaxTicks * TimeQuantum
MaxTicks == 12
TimeQuantum == 100
\* largest phase index stepMotor is called with on its own
MaxIndex == 11
\* the counter of ClockSpec advances by 2 ^ ClockQuantumBits microseconds
ClockQuantumBits == 14

(* Program constants *)

MicrosPerMinute == 60000000
DecelSteps == 10
DecelMicros == 100
PhaseCycle == 4
NumPins == 4
PhasePattern == 204
LOW == 0
LibVersion == 5

IntMod == 2 ^ IntBits
ClockQuantum == 2 ^ ClockQuantumBits
LongMod == 2 ^ LongBits

Pins == 0 .. (NumPins - 1)

-----------------------------------------------------------------------------
(* C++ arithmetic *)

\* conversion to int: the value modulo 2^IntBits, read as two's complement
ToInt(x) == LET m == x % IntMod IN IF m >= IntMod \div 2 THEN m - IntMod ELSE m

\* conversion to unsigned long, and unsigned long arithmetic
ToULong(x) == x % LongMod

\* a / b and a % b of C++: the quotient truncated toward zero
Quot(a, b) ==
    LET q == (IF a >= 0 THEN a ELSE -a) \div (IF b >= 0 THEN b ELSE -b)
    IN IF (a >= 0) = (b >= 0) THEN q ELSE -q

Rem(a, b) == a - b * Quot(a, b)

Abs(x) == IF x >= 0 THEN x ELSE -x

\* bitRead(value, bit)
BitRead(value, bit) == (value \div (2 ^ bit)) % 2

-----------------------------------------------------------------------------
(* Inputs *)

StepsPerRevChoices == {0, 200}
SpeedChoices == {0, 8, 60, 2900}
PinChoice == <<8, 9, 10, 11>>
StepChoices == (-MaxSteps) .. MaxSteps
IndexChoices == 0 .. MaxIndex

\* what micros() may return
TimeSamples ==
    {q * TimeQuantum : q \in 0 .. MaxTicks}
    \cup {60 * TimeQuantum, 120 * TimeQuantum}
    \cup {IntMod \div 2, IntMod + TimeQuantum,
          LongMod - 10 * TimeQuantum, LongMod - TimeQuantum}

\* what a division by zero leaves in the quotient when it does not trap
DivZeroQuotients == {0, -1}

-----------------------------------------------------------------------------
(* Stepper::setSpeed, line 108 *)

\* the history of a step call is kept until the next call of any function
CallHistoryCleared ==
    /\ emitted' = <<>>
    /\ pinLog' = <<>>
    /\ lastEsti' = 0
    /\ phaseBefore' = -1
    /\ mirror' = FALSE
    /\ prevEmitted' = <<>>

\* a faulty delay, with the second quotient rounded up
SpeedDelayRoundsUp(steps, whatSpeed) ==
    ToULong(Quot(Quot(MicrosPerMinute, steps) + whatSpeed - 1, whatSpeed))

\* line 108: both operands are long, both divisions truncate
SpeedDelay(steps, whatSpeed) == ToULong(Quot(Quot(MicrosPerMinute, steps), whatSpeed))

\* the effect of setSpeed on step_delay and on status; `trap` and `q` choose
\* the outcome of a division by zero, which is undefined behaviour
SetSpeedEffect(steps, whatSpeed, trap, q) ==
    IF steps = 0 \/ whatSpeed = 0
    THEN IF trap
         THEN /\ status' = "trap"
              /\ UNCHANGED step_delay
         ELSE /\ status' = "divzero"
              /\ step_delay' = ToULong(q)
    ELSE /\ status' = "ok"
         /\ step_delay' = SpeedDelay(steps, whatSpeed)

SetSpeed(whatSpeed) ==
    /\ pc = "idle"
    /\ \E trap \in BOOLEAN, q \in DivZeroQuotients :
          /\ SetSpeedEffect(number_of_steps, whatSpeed, trap, q)
          /\ pc' = IF status' = "trap" THEN "fault" ELSE "idle"
    /\ op' = <<"setSpeed", whatSpeed>>
    /\ UNCHANGED <<number_of_steps, motor_pin, pin_mode, pin_level>>
    /\ UNCHANGED localVars
    /\ CallHistoryCleared
    /\ UNCHANGED <<lastAdvance, lastPhase>>
    /\ UNCHANGED clockVars

-----------------------------------------------------------------------------
(* Stepper::Stepper, lines 85-101 *)

Construct(steps, whatSpeed) ==
    /\ pc = "new"
    /\ number_of_steps' = steps
    /\ \E trap \in BOOLEAN, q \in DivZeroQuotients :
          SetSpeedEffect(steps, whatSpeed, trap, q)
    /\ IF status' = "trap"
       THEN /\ pc' = "fault"
            /\ UNCHANGED <<motor_pin, pin_mode>>
       ELSE /\ pc' = "idle"
            /\ motor_pin' = PinChoice
            /\ pin_mode' = [i \in Pins |-> "OUTPUT"]
    /\ op' = <<"Stepper", steps, whatSpeed>>
    /\ UNCHANGED pin_level
    /\ UNCHANGED localVars
    /\ UNCHANGED histVars
    /\ UNCHANGED clockVars

-----------------------------------------------------------------------------
(* Stepper::stepMotor, lines 162-166, and Stepper::resetMotor, lines 170-174 *)

\* the sequence of control signals for 4 control wires the header comment
\* documents (lines 56-62): steps 1 to 4, columns C0 to C3
DocumentedSequence ==
    << <<1, 0, 1, 0>>,
       <<0, 1, 1, 0>>,
       <<0, 1, 0, 1>>,
       <<1, 0, 0, 1>> >>

\* the level stepMotor(thisStep) writes to motor_pin[i]
PhaseLevel(thisStep, i) == BitRead(PhasePattern, thisStep + i)

\* a faulty stepMotor, whose loop ends one pin early
StepMotorWritesSkipLastPin(thisStep) ==
    [k \in 1 .. (NumPins - 1) |-> <<k - 1, PhaseLevel(thisStep, k - 1), "stepMotor">>]

\* the digitalWrite calls of stepMotor(thisStep), in order
StepMotorWrites(thisStep) ==
    [k \in 1 .. NumPins |-> <<k - 1, PhaseLevel(thisStep, k - 1), "stepMotor">>]

\* a faulty resetMotor, which leaves the last pin high
ResetLevelHighOnLastPin(i) == IF i = NumPins - 1 THEN 1 - LOW ELSE LOW

\* the level resetMotor writes to motor_pin[i]
ResetLevel(i) == LOW

\* the digitalWrite calls of resetMotor, in order
ResetMotorWrites ==
    [k \in 1 .. NumPins |-> <<k - 1, ResetLevel(k - 1), "resetMotor">>]

\* the pin levels after a sequence of writes
RECURSIVE ApplyWrites(_, _)
ApplyWrites(levels, ws) ==
    IF ws = <<>> THEN levels
    ELSE ApplyWrites([levels EXCEPT ![Head(ws)[1]] = Head(ws)[2]], Tail(ws))

-----------------------------------------------------------------------------
(* Stepper::step, lines 115-157 *)

\* line 118
StepGuard(s) == s # 0

\* a faulty direction, the same for both signs of steps_to_move
DirectionIgnoresSign(left, s) == -1

\* a faulty direction, without the minus sign
DirectionOfSign(left, s) == Quot(left, s)

\* line 124
Direction(left, s) == Quot(left, -s)

\* lines 131-137: step_delay narrowed to int, plus the deceleration bonus
\* (the sum stays within int for every delay the inputs produce)
Esti(delay, left) ==
    IF left < DecelSteps
    THEN ToInt(ToInt(delay) + left * DecelMicros)
    ELSE ToInt(delay)

\* line 130: the unsigned difference narrowed to int
Left(now, last) == ToInt(ToULong(now - last))

\* a faulty test, which takes a step at the exact time only
ShouldMoveOnExactTime(left, esti) == left = esti

\* line 140
ShouldMove(left, esti) == left >= esti

\* a faulty index, without the outer remainder
PhaseOfNoOuterRemainder(left, dir) == PhaseCycle + Rem(left * dir, PhaseCycle)

\* line 148
PhaseOf(left, dir) == Rem(PhaseCycle + Rem(left * dir, PhaseCycle), PhaseCycle)

\* a faulty loop test, which leaves the loop one step early
LoopLeavesOneStep(left) == left > 1

\* line 127
LoopContinues(left) == left > 0

\* a faulty loop body, with the index computed before the decrement
PhaseBeforeDecrement(remaining, dir) == PhaseOf(remaining + 1, dir)

\* lines 144-148: the index computed from steps_left after the decrement
PhaseAfterDecrement(remaining, dir) == PhaseOf(remaining, dir)

\* a faulty step(0), with the reset of line 155 outside the test of line 118
StepNoopResets ==
    /\ pc' = "idle"
    /\ steps_to_move' = 0
    /\ emitted' = <<>>
    /\ pinLog' = ResetMotorWrites
    /\ pin_level' = ApplyWrites(pin_level, ResetMotorWrites)
    /\ lastEsti' = 0
    /\ phaseBefore' = -1
    /\ mirror' = FALSE
    /\ prevEmitted' = <<>>
    /\ UNCHANGED <<lastAdvance, lastPhase, pin_mode>>
    /\ UNCHANGED progVars
    /\ UNCHANGED <<steps_left, direction, last_step_time>>

\* step(0): the test of line 118 fails and the function returns
StepNoop ==
    /\ pc' = "idle"
    /\ steps_to_move' = 0
    /\ CallHistoryCleared
    /\ UNCHANGED <<lastAdvance, lastPhase>>
    /\ UNCHANGED <<pin_mode, pin_level>>
    /\ UNCHANGED progVars
    /\ UNCHANGED <<steps_left, direction, last_step_time>>

\* step(s), s nonzero: lines 120-124, up to the loop head
StepEnter(s) ==
    /\ pc' = "loop"
    /\ steps_to_move' = s
    /\ last_step_time' = 0
    /\ steps_left' = Abs(s)
    /\ direction' = Direction(Abs(s), s)
    /\ emitted' = <<>>
    /\ pinLog' = <<>>
    /\ lastEsti' = 0
    /\ phaseBefore' = lastPhase
    /\ mirror' = (op = <<"step", -s>>)
    /\ prevEmitted' = IF op = <<"step", -s>> THEN emitted ELSE <<>>
    /\ UNCHANGED <<pin_mode, pin_level, lastAdvance, lastPhase>>
    /\ UNCHANGED progVars

StepCall(s) ==
    /\ pc = "idle"
    /\ op' = <<"step", s>>
    /\ status' = "ok"
    /\ IF StepGuard(s) THEN StepEnter(s) ELSE StepNoop
    /\ UNCHANGED clockVars

\* one iteration of the while loop (lines 127-153), micros() returning now;
\* the iteration that takes the last step goes on to leave the loop, to
\* resetMotor (line 155) and to return, where step's locals end
PollBody(now) ==
    /\ pc = "loop"
    /\ LoopContinues(steps_left)
    /\ LET left == Left(now, last_step_time)
           esti == Esti(step_delay, steps_left)
       IN IF ShouldMove(left, esti)
          THEN LET remaining == steps_left - 1
                   steps == PhaseAfterDecrement(remaining, direction)
                   stepWrites == StepMotorWrites(steps)
                   writes == IF LoopContinues(remaining)
                             THEN stepWrites
                             ELSE stepWrites \o ResetMotorWrites
               IN /\ steps_left' = remaining
                  /\ emitted' = Append(emitted, steps)
                  /\ pinLog' = pinLog \o writes
                  /\ pin_level' = ApplyWrites(pin_level, writes)
                  /\ lastAdvance' = now
                  /\ lastEsti' = esti
                  /\ lastPhase' = steps
                  /\ IF LoopContinues(remaining)
                     THEN /\ pc' = "loop"
                          /\ last_step_time' = now
                          /\ UNCHANGED <<steps_to_move, direction>>
                     ELSE /\ pc' = "idle"
                          /\ last_step_time' = 0
                          /\ steps_to_move' = 0
                          /\ direction' = 0
          ELSE /\ UNCHANGED <<pc, last_step_time, steps_left, emitted, pinLog,
                              pin_level, lastAdvance, lastEsti, lastPhase,
                              steps_to_move, direction>>
    /\ UNCHANGED <<pin_mode, op, status, phaseBefore, mirror, prevEmitted>>
    /\ UNCHANGED progVars

\* an iteration whose micros() returns any value
Poll(now) ==
    /\ PollBody(now)
    /\ UNCHANGED clockVars

\* an iteration whose micros() reads the counter
PollClock ==
    /\ PollBody(clock)
    /\ polled' = (pc' = "loop")
    /\ UNCHANGED clock

\* the counter advances and wraps at the width of unsigned long; step's loop
\* is fast enough to read every value of the counter
Tick ==
    /\ pc = "loop" => polled
    /\ clock' = ToULong(clock + ClockQuantum)
    /\ polled' = FALSE
    /\ UNCHANGED <<pc, pin_mode, pin_level, op, status>>
    /\ UNCHANGED progVars
    /\ UNCHANGED localVars
    /\ UNCHANGED histVars

\* stepMotor(thisStep) called on its own, outside a step call (lines 162-166)
StepMotor(thisStep) ==
    /\ pc = "idle"
    /\ pc' = "idle"
    /\ op' = <<"stepMotor", thisStep>>
    /\ status' = "ok"
    /\ emitted' = <<thisStep>>
    /\ pinLog' = StepMotorWrites(thisStep)
    /\ pin_level' = ApplyWrites(pin_level, StepMotorWrites(thisStep))
    /\ lastPhase' = thisStep
    /\ lastEsti' = 0
    /\ phaseBefore' = -1
    /\ mirror' = FALSE
    /\ prevEmitted' = <<>>
    /\ UNCHANGED <<lastAdvance, pin_mode>>
    /\ UNCHANGED progVars
    /\ UNCHANGED localVars
    /\ UNCHANGED clockVars

\* Stepper::version, lines 179-182
Version == LibVersion

-----------------------------------------------------------------------------

Init ==
    /\ pc = "new"
    /\ number_of_steps = 0
    /\ step_delay = 0
    /\ motor_pin = <<0, 0, 0, 0>>
    /\ pin_mode = [i \in Pins |-> "INPUT"]
    /\ pin_level = [i \in Pins |-> LOW]
    /\ steps_to_move = 0
    /\ steps_left = 0
    /\ direction = 0
    /\ last_step_time = 0
    /\ op = <<"new">>
    /\ status = "ok"
    /\ emitted = <<>>
    /\ pinLog = <<>>
    /\ lastAdvance = 0
    /\ lastEsti = 0
    /\ lastPhase = -1
    /\ phaseBefore = -1
    /\ mirror = FALSE
    /\ prevEmitted = <<>>
    /\ clock = 0
    /\ polled = FALSE

Next ==
    \/ \E steps \in StepsPerRevChoices, whatSpeed \in SpeedChoices : Construct(steps, whatSpeed)
    \/ \E whatSpeed \in SpeedChoices : SetSpeed(whatSpeed)
    \/ \E s \in StepChoices : StepCall(s)
    \/ \E now \in TimeSamples : Poll(now)

Spec == Init /\ [][Next]_vars

\* the driver with stepMotor as an operation of its own: construction,
\* setSpeed and stepMotor with any index of IndexChoices
EmitNext ==
    \/ \E steps \in StepsPerRevChoices, whatSpeed \in SpeedChoices : Construct(steps, whatSpeed)
    \/ \E whatSpeed \in SpeedChoices : SetSpeed(whatSpeed)
    \/ \E thisStep \in IndexChoices : StepMotor(thisStep)

EmitSpec == Init /\ [][EmitNext]_vars

\* the driver with a time source that is a counter: micros() returns the
\* counter, which advances between the iterations of step's loop
ClockNext ==
    \/ \E steps \in StepsPerRevChoices, whatSpeed \in SpeedChoices : Construct(steps, whatSpeed)
    \/ \E whatSpeed \in SpeedChoices : SetSpeed(whatSpeed)
    \/ \E s \in StepChoices : StepCall(s)
    \/ PollClock
    \/ Tick

ClockSpec == Init /\ [][ClockNext]_vars

\* the counter keeps advancing and the loop keeps iterating
FairClockSpec == ClockSpec /\ WF_vars(Tick) /\ WF_vars(PollClock)

-----------------------------------------------------------------------------
(* Properties of the driver *)

\* the call made last was step(s) with s nonzero, and it has returned
MoveReturned == pc = "idle" /\ op[1] = "step" /\ op[2] # 0

\* an iteration of step's loop advances the motor in this step
Advances == pc = "loop" /\ Len(emitted') = Len(emitted) + 1

\* the configuration is one a valid construction and valid setSpeed calls
\* leave: number_of_steps > 0 and step_delay computed from a speed > 0
ValidConfig ==
    /\ number_of_steps > 0
    /\ \E v \in SpeedChoices : v > 0 /\ step_delay = SpeedDelay(number_of_steps, v)

\* the largest threshold of a move fits in int
DelayFitsInt == step_delay + (DecelSteps - 1) * DecelMicros < IntMod \div 2

\* the deceleration bonus of the step taken with k steps left
Bonus(k) == IF k < DecelSteps THEN k * DecelMicros ELSE 0

\* C1: a step(s) call with s nonzero that has returned has called stepMotor
\* exactly |s| times, and a running one fewer than |s| times, whatever the
\* time source returned.
C1_ExactlyAbsStepsEmissions ==
    /\ MoveReturned => Len(emitted) = Abs(op[2])
    /\ pc = "loop" => Len(emitted) < Abs(steps_to_move)

C1_Witness ==
    /\ MoveReturned
    /\ op[2] = -3
    /\ Len(emitted) = 3
    /\ lastAdvance = IntMod \div 2

\* C2: after step(s), s nonzero, returns, the phase index emitted last is the
\* one emitted last before the call advanced by s modulo the cycle, and the
\* first emission of the call is one phase, in the direction of the sign of
\* s, from the last emission before the call (stated for a valid
\* configuration).
C2_NetDisplacement ==
    (MoveReturned /\ phaseBefore # -1 /\ ValidConfig) =>
        /\ lastPhase = (phaseBefore + op[2]) % PhaseCycle
        /\ emitted[1] = (phaseBefore + (IF op[2] > 0 THEN 1 ELSE -1)) % PhaseCycle

\* C3: within one step call, an advance after the first happens at a reading
\* at least step_delay plus the deceleration bonus of that step later than
\* the reading of the advance before it, when the readings do not decrease
\* (stated for a valid configuration).
C3_MinDelayWithinCall ==
    [][(Advances /\ Len(emitted) >= 1 /\ ValidConfig /\ lastAdvance' >= lastAdvance)
         => lastAdvance' - lastAdvance >= step_delay + Bonus(steps_left)]_vars

\* C4: between two successive advances of the driver, the first advance of a
\* call and the last of the call before included (the first after
\* construction measured from 0), at least step_delay elapses (stated for a
\* valid configuration whose thresholds fit in int).
C4_MinDelayAcrossCalls ==
    [][(Advances /\ ValidConfig /\ DelayFitsInt /\ lastAdvance' >= lastAdvance)
         => lastAdvance' - lastAdvance >= step_delay]_vars

\* C5: after a step(s) call with s nonzero has returned, every motor pin is
\* low: the last write to each motor pin is LOW and comes after the last
\* write of the last stepMotor call.
C5_AllPinsLowAfterMove ==
    MoveReturned =>
        \A i \in Pins :
            /\ pin_level[i] = LOW
            /\ \E k \in 1 .. Len(pinLog) :
                  /\ pinLog[k][1] = i
                  /\ pinLog[k][2] = LOW
                  /\ \A j \in (k + 1) .. Len(pinLog) : pinLog[j][1] # i
                  /\ \A j \in 1 .. Len(pinLog) : pinLog[j][3] = "stepMotor" => j < k

C5_Witness ==
    /\ MoveReturned
    /\ op[2] = 4
    /\ \A i \in Pins : \E k \in 1 .. Len(pinLog) : pinLog[k] = <<i, 1, "stepMotor">>

\* C6: step(0) writes no pin and leaves step_delay, number_of_steps, the pin
\* list, the pin modes and the pin levels as they are, in whatever state of
\* the driver it is called.
C6_StepZeroIsNoop ==
    [][(pc = "idle" /\ op' = <<"step", 0>>)
         => /\ pinLog' = <<>>
            /\ emitted' = <<>>
            /\ pc' = "idle"
            /\ UNCHANGED <<step_delay, number_of_steps, motor_pin, pin_mode,
                           pin_level, lastAdvance, lastPhase>>]_vars

C6_Witness ==
    /\ pc = "idle"
    /\ op = <<"step", 0>>
    /\ ValidConfig
    /\ lastPhase = 0
    /\ lastAdvance > 0

\* C7: over the final DecelSteps - 1 steps of a move the threshold an advance
\* is tested against does not decrease as steps_left decreases (stated for a
\* valid configuration whose thresholds fit in int).
C7_DecelerationMonotone ==
    [][(Advances /\ Len(emitted) >= 1 /\ steps_left < DecelSteps - 1
          /\ ValidConfig /\ DelayFitsInt)
         => lastEsti' >= lastEsti]_vars

\* C8: setSpeed(0) is rejected with a ConfigurationError: no division by zero
\* is executed, the driver stays usable and step_delay is left as it was
\* (stated for a driver whose configuration was valid before the call).
C8_SetSpeedZeroRejected ==
    [][(pc = "idle" /\ ValidConfig /\ op' = <<"setSpeed", 0>>)
         => /\ status' = "ConfigurationError"
            /\ pc' = "idle"
            /\ step_delay' = step_delay]_vars

\* C9: construction with number_of_steps = 0 or with speed 0 fails with a
\* construction error before any arithmetic on them and before any pin is
\* made an output, and leaves no usable driver.
C9_ConstructionRejected ==
    [][(pc = "new" /\ op'[1] = "Stepper" /\ (op'[2] = 0 \/ op'[3] = 0))
         => /\ status' = "ConfigurationError"
            /\ pc' # "idle"
            /\ \A i \in Pins : pin_mode'[i] = "INPUT"]_vars

\* C10: step(-N) made right after step(N) (N of either sign) ends on the
\* phase index step(N) ended on, and its k-th emitted index lies as many
\* phases on one side of that final index as the k-th of step(N) lies on the
\* other side, modulo the cycle.
C10_MirroredOrder ==
    (MoveReturned /\ mirror) =>
        /\ Len(emitted) = Len(prevEmitted)
        /\ emitted[Len(emitted)] = prevEmitted[Len(prevEmitted)]
        /\ \A k \in 1 .. Len(emitted) :
              (emitted[k] - emitted[Len(emitted)]) % PhaseCycle
                 = (prevEmitted[Len(prevEmitted)] - prevEmitted[k]) % PhaseCycle

C10_Witness ==
    /\ MoveReturned
    /\ mirror
    /\ op[2] = -3
    /\ emitted = <<2, 1, 0>>
    /\ prevEmitted = <<2, 3, 0>>

\* C11: after Stepper(steps, speed) or setSpeed(speed) with steps > 0 and
\* speed > 0 has returned, step_delay is 60000000 divided by the number of
\* steps and then by the speed, each quotient truncated, and the constructor
\* has stored and used the number of steps passed to it.
C11_StepDelayFormula ==
    /\ (op[1] = "Stepper" /\ op[2] > 0 /\ op[3] > 0) =>
          /\ pc = "idle"
          /\ number_of_steps = op[2]
          /\ step_delay = (MicrosPerMinute \div op[2]) \div op[3]
    /\ (op[1] = "setSpeed" /\ number_of_steps > 0 /\ op[2] > 0) =>
          /\ pc = "idle"
          /\ step_delay = (MicrosPerMinute \div number_of_steps) \div op[2]

C11_Witness ==
    /\ op = <<"setSpeed", 60>>
    /\ number_of_steps = 200
    /\ step_delay = 5000
    /\ lastPhase = 0

\* C12: the driver's phase cycle has length 4 for the four-wire wiring (the
\* one wiring the constructor sets up), and emission is cyclic in the index:
\* after stepMotor(k), k >= 0, the four motor pins are written, in order,
\* with the levels stepMotor(k mod 4) writes (stated for a valid
\* configuration).
C12_EmissionCyclic ==
    (op[1] = "stepMotor" /\ ValidConfig) =>
        /\ Len(pinLog) = NumPins
        /\ \A i \in Pins :
              /\ pinLog[i + 1] = <<i, PhaseLevel(op[2] % PhaseCycle, i), "stepMotor">>
              /\ pin_level[i] = PhaseLevel(op[2] % PhaseCycle, i)

\* C13: every stepMotor call of a step call writes to the motor pins, in the
\* order motor_pin[0] to motor_pin[3], the row of the documented sequence of
\* control signals that belongs to its index: (1,0,1,0), (0,1,1,0),
\* (0,1,0,1), (1,0,0,1) for the indices 0, 1, 2, 3 (stated for a valid
\* configuration whose thresholds fit in int).
C13_DocumentedSequence ==
    (op[1] = "step" /\ ValidConfig /\ DelayFitsInt) =>
        \A j \in 1 .. Len(emitted) : \A i \in Pins :
            pinLog[(j - 1) * NumPins + i + 1]
               = <<i, DocumentedSequence[emitted[j] + 1][i + 1], "stepMotor">>

\* C14: an iteration of step's loop that reads the counter advances the
\* motor if and only if the counter minus last_step_time, taken modulo
\* 2^LongBits, is at least step_delay plus the deceleration bonus; so it
\* advances as well when that difference is 2^(IntBits-1) or more (stated
\* for a valid configuration whose thresholds fit in int).
C14_AdvanceIffElapsed ==
    [][(pc = "loop" /\ clock' = clock /\ ValidConfig /\ DelayFitsInt)
         => (Len(emitted') = Len(emitted) + 1
               <=> ToULong(clock - last_step_time) >= step_delay + Bonus(steps_left))]_vars

\* the loop reads a value of the counter within the span that a threshold
\* leaves in the positive half of int: one step of the counter is at least
\* the largest threshold and less than 2^(IntBits-1)
CounterResolvesDelay ==
    /\ step_delay + (DecelSteps - 1) * DecelMicros <= ClockQuantum
    /\ ClockQuantum < IntMod \div 2

C16_PhaseIndexInRange ==
    op[1] = "step" =>
        \A j \in 1 .. Len(emitted) : emitted[j] \in 0 .. (PhaseCycle - 1)

\* step(11) has direction -1: its tenth index comes from the product -1
C16_Witness ==
    /\ pc = "loop"
    /\ steps_to_move = MaxSteps
    /\ direction = -1
    /\ steps_left = 1
    /\ Rem(steps_left * direction, PhaseCycle) = -1
    /\ emitted[Len(emitted)] = 3

\* C17: the threshold an advance made with steps_left = k (before the
\* decrement) is tested against is exactly step_delay + 100 * k when k < 10
\* and exactly step_delay when k >= 10 (stated for a valid configuration).
C17_ThresholdExact ==
    [][(Advances /\ ValidConfig)
         => lastEsti' = step_delay + Bonus(steps_left)]_vars

\* C18: within one step(s) call every index passed to stepMotor after the
\* first is the index passed before it plus 1 modulo 4 when s > 0 and minus
\* 1 modulo 4 when s < 0: no phase is skipped or repeated.
C18_AdjacentPhases ==
    (op[1] = "step" /\ op[2] # 0) =>
        \A j \in 2 .. Len(emitted) :
            emitted[j] = (emitted[j - 1] + (IF op[2] > 0 THEN 1 ELSE -1)) % PhaseCycle

C18_Witness ==
    /\ MoveReturned
    /\ op[2] = 5
    /\ emitted = <<0, 1, 2, 3, 0>>

C20_EndsOnIndexZero ==
    /\ MoveReturned =>
          /\ emitted[Len(emitted)] = 0
          /\ lastPhase = 0
    /\ (op[1] = "step" /\ op[2] # 0 /\ Len(emitted) >= 1) =>
          emitted[1] = (IF op[2] > 0 THEN -(Abs(op[2]) - 1) ELSE Abs(op[2]) - 1) % PhaseCycle

\* step(-2) made after an earlier move has returned
C20_Witness ==
    /\ MoveReturned
    /\ op[2] = -2
    /\ phaseBefore = 0
    /\ emitted = <<1, 0>>

====
